---------------------------- MODULE Spec2Model ----------------------------
(***************************************************************************)
(* A model of jaxtyping/array_types.py: the dimension-string parser        *)
(* (_MetaAbstractDtype.__getitem__, behind functools.lru_cache), the       *)
(* process-wide array name format, and the shape matcher                   *)
(* (_MetaAbstractArray.__instancecheck__, _check_shape, _check_dims)       *)
(* working on storage.memo_stack.                                          *)
(*                                                                         *)
(* Python strings are sequences of one-character strings, so that split,   *)
(* endswith, int() and indexing are computed rather than assumed.  A       *)
(* Python value that is "an int or a tuple" is a record with a kind tag.   *)
(* Python's None for an optional index is the empty set, an index i is {i}.*)
(***************************************************************************)
EXTENDS Integers, Sequences, FiniteSets, TLC

VARIABLES
    memo_stack,         \* storage.memo_stack: a list of dicts, top is the last
    array_name_format,  \* the module global _array_name_format
    cache,              \* the lru_cache of __getitem__: key -> returned class
    op,                 \* the operation that ran last
    cls,                \* the class __getitem__ returned, or the class of the isinstance call
    dim_str_arg,        \* the argument of the __getitem__ call
    obj,                \* the object of the isinstance call
    memo,               \* the local dict `memo` of the __instancecheck__ that just returned
    result              \* what the call that just ended returned, or the exception it raised

vars == <<memo_stack, array_name_format, cache, op, cls, dim_str_arg, obj, memo, result>>

-----------------------------------------------------------------------------
(* Bounds of the model *)

MaxTokens == 3      \* tokens per enumerated dimension string
MaxSize == 3        \* axis sizes are 0..MaxSize
MaxRank == 3        \* ranks of the enumerated shapes
MaxDepth == 2       \* depth of storage.memo_stack

-----------------------------------------------------------------------------
(* Python values *)

None == {}
Some(i) == {i}
TheIdx(o) == CHOOSE i \in o : TRUE

Str(chars) == [isStr |-> TRUE, chars |-> chars]
NotAStr == [isStr |-> FALSE, chars |-> <<>>]

DigitChars == {"0", "1", "2", "3", "4", "5", "6", "7", "8", "9"}

DigitVal(c) ==
    CASE c = "0" -> 0 [] c = "1" -> 1 [] c = "2" -> 2 [] c = "3" -> 3
      [] c = "4" -> 4 [] c = "5" -> 5 [] c = "6" -> 6 [] c = "7" -> 7
      [] c = "8" -> 8 [] c = "9" -> 9

Whitespace == {" ", "\t", "\n"}

\* s[lo:hi] of Python for 0-based lo, hi already inside 0..len(s)
Sub(s, lo, hi) == IF hi <= lo THEN <<>> ELSE SubSeq(s, lo + 1, hi)

\* Python's slice index normalisation: negative counts from the end, then clamp
Norm(k, n) == IF k < 0 THEN (IF k + n < 0 THEN 0 ELSE k + n)
              ELSE (IF k > n THEN n ELSE k)

\* s[lo:hi] with Optional lo and hi (None = the empty set)
PySlice(s, lo, hi) ==
    LET n == Len(s)
        l == IF lo = None THEN 0 ELSE Norm(TheIdx(lo), n)
        h == IF hi = None THEN n ELSE Norm(TheIdx(hi), n)
    IN  Sub(s, l, h)

\* str.split() without arguments: split on runs of whitespace, no empty tokens
RECURSIVE SplitFrom(_, _, _, _)
SplitFrom(s, i, cur, acc) ==
    IF i > Len(s)
    THEN (IF cur = <<>> THEN acc ELSE Append(acc, cur))
    ELSE IF s[i] \in Whitespace
         THEN SplitFrom(s, i + 1, <<>>, IF cur = <<>> THEN acc ELSE Append(acc, cur))
         ELSE SplitFrom(s, i + 1, Append(cur, s[i]), acc)

Split(s) == SplitFrom(s, 1, <<>>, <<>>)

EndsWithHash(elem) == Len(elem) > 0 /\ elem[Len(elem)] = "#"

HasComma(elem) == \E p \in 1..Len(elem) : elem[p] = ","

\* the digits-and-underscores part of an int() literal: digits, with single
\* underscores allowed between two digits
IntBodyOk(b) ==
    /\ Len(b) > 0
    /\ \A p \in 1..Len(b) : b[p] \in DigitChars \cup {"_"}
    /\ b[1] \in DigitChars
    /\ b[Len(b)] \in DigitChars
    /\ \A p \in 1..(Len(b) - 1) : ~(b[p] = "_" /\ b[p + 1] = "_")

RECURSIVE IntBodyVal(_, _, _)
IntBodyVal(b, p, acc) ==
    IF p > Len(b) THEN acc
    ELSE IF b[p] = "_" THEN IntBodyVal(b, p + 1, acc)
    ELSE IntBodyVal(b, p + 1, 10 * acc + DigitVal(b[p]))

HasSign(elem) == Len(elem) > 0 /\ elem[1] \in {"+", "-"}

IntBody(elem) == IF HasSign(elem) THEN Tail(elem) ELSE elem

\* int(elem) succeeds (does not raise ValueError)
PyIntOk(elem) == IntBodyOk(IntBody(elem))

\* the value of int(elem) when it succeeds
PyInt(elem) ==
    LET v == IntBodyVal(IntBody(elem), 1, 0)
    IN  IF Len(elem) > 0 /\ elem[1] = "-" THEN 0 - v ELSE v

-----------------------------------------------------------------------------
(* Dimension objects *)

NoName == <<>>

anonymous_dim == [kind |-> "anonymous", name |-> NoName, size |-> 0, broadcastable |-> FALSE]

anonymous_variadic_dim ==
    [kind |-> "anonymous_variadic", name |-> NoName, size |-> 0, broadcastable |-> FALSE]

NamedDim(name, broadcastable) ==
    [kind |-> "named", name |-> name, size |-> 0, broadcastable |-> broadcastable]

NamedVariadicDim(name, broadcastable) ==
    [kind |-> "named_variadic", name |-> name, size |-> 0, broadcastable |-> broadcastable]

FixedDim(size, broadcastable) ==
    [kind |-> "fixed", name |-> NoName, size |-> size, broadcastable |-> broadcastable]

IsVariadic(d) == d.kind \in {"anonymous_variadic", "named_variadic"}

-----------------------------------------------------------------------------
(* Dtype classes: the subscriptable classes made by _make_dtype *)

any_dtype == {"_any_dtype"}

DtypeClasses == {"f32", "Array"}

DtypesOf(clsname) == IF clsname = "Array" THEN any_dtype ELSE {"float32"}

-----------------------------------------------------------------------------
(* _MetaAbstractDtype.__getitem__ *)

NoClass == [exc |-> "None", isClass |-> FALSE, name |-> <<>>, dtypes |-> {},
            dims |-> <<>>, index_variadic |-> None]

Raise(exc) == [NoClass EXCEPT !.exc = exc]

Raised(r) == r.exc # "None"

CommaError == "ValueError: Dimensions should be separated with spaces, not commas"
VariadicError == "ValueError: Cannot have multiple variadic dimensions"
NotStringError == "ValueError: Shape specification must be a string"
FormatError == "ValueError: array_name_format not recognised"
EmptyElemError == "IndexError: string index out of range"

\* a faulty variant: `*name` does not look for an earlier variadic dim
ParseElem_unguarded_star(index, elem0, index_variadic) ==
    LET broadcastable == EndsWithHash(elem0)
        elem == IF broadcastable THEN Sub(elem0, 0, Len(elem0) - 1) ELSE elem0
        ok(d, iv) == [exc |-> "None", dim |-> d, index_variadic |-> iv]
        bad(e) == [exc |-> e, dim |-> anonymous_dim, index_variadic |-> index_variadic]
    IN  IF HasComma(elem0) THEN bad(CommaError)
        ELSE IF PyIntOk(elem) THEN ok(FixedDim(PyInt(elem), broadcastable), index_variadic)
        ELSE IF elem = <<"_">> THEN ok(anonymous_dim, index_variadic)
        ELSE IF elem = <<".", ".", ".">>
             THEN (IF index_variadic # None THEN bad(VariadicError)
                   ELSE ok(anonymous_variadic_dim, Some(index)))
        ELSE IF Len(elem) = 0 THEN bad(EmptyElemError)
        ELSE IF elem[1] = "*"
             THEN ok(NamedVariadicDim(Tail(elem), broadcastable), Some(index))
        ELSE ok(NamedDim(elem, broadcastable), index_variadic)

\* lines 198-220: one element of dim_str.split() at 0-based position index
\* gives the exception raised, or the dim object and the new index_variadic
ParseElem(index, elem0, index_variadic) ==
    LET broadcastable == EndsWithHash(elem0)
        elem == IF broadcastable THEN Sub(elem0, 0, Len(elem0) - 1) ELSE elem0
        ok(d, iv) == [exc |-> "None", dim |-> d, index_variadic |-> iv]
        bad(e) == [exc |-> e, dim |-> anonymous_dim, index_variadic |-> index_variadic]
    IN  IF HasComma(elem0) THEN bad(CommaError)
        ELSE IF PyIntOk(elem) THEN ok(FixedDim(PyInt(elem), broadcastable), index_variadic)
        ELSE IF elem = <<"_">> THEN ok(anonymous_dim, index_variadic)
        ELSE IF elem = <<".", ".", ".">>
             THEN (IF index_variadic # None THEN bad(VariadicError)
                   ELSE ok(anonymous_variadic_dim, Some(index)))
        ELSE IF Len(elem) = 0 THEN bad(EmptyElemError)
        ELSE IF elem[1] = "*"
             THEN (IF index_variadic # None THEN bad(VariadicError)
                   ELSE ok(NamedVariadicDim(Tail(elem), broadcastable), Some(index)))
        ELSE ok(NamedDim(elem, broadcastable), index_variadic)

\* lines 190-221: the loop over enumerate(dim_str.split())
RECURSIVE ParseLoop(_, _, _, _)
ParseLoop(elems, index, dims, index_variadic) ==
    IF index >= Len(elems)
    THEN [exc |-> "None", dims |-> dims, index_variadic |-> index_variadic]
    ELSE LET r == ParseElem(index, elems[index + 1], index_variadic)
         IN  IF r.exc # "None"
             THEN [exc |-> r.exc, dims |-> dims, index_variadic |-> index_variadic]
             ELSE ParseLoop(elems, index + 1, Append(dims, r.dim), r.index_variadic)

\* lines 222-227: the class name under the current format
ClassName(clsname, dim_str, format) ==
    IF format = "dtype_and_shape" THEN <<clsname, "['", dim_str.chars, "']">>
    ELSE IF format = "array" THEN <<"Array">>
    ELSE <<>>

FormatRecognised(format) == format \in {"dtype_and_shape", "array"}

\* lines 186-232: the body of __getitem__, run on a cache miss
GetItemBody(clsname, dim_str, format) ==
    IF ~dim_str.isStr THEN Raise(NotStringError)
    ELSE LET p == ParseLoop(Split(dim_str.chars), 0, <<>>, None)
         IN  IF p.exc # "None" THEN Raise(p.exc)
             ELSE IF ~FormatRecognised(format) THEN Raise(FormatError)
             ELSE [exc |-> "None", isClass |-> TRUE,
                   name |-> ClassName(clsname, dim_str, format),
                   dtypes |-> DtypesOf(clsname),
                   dims |-> p.dims, index_variadic |-> p.index_variadic]

\* line 184: functools.lru_cache(maxsize=None) keyed by the call's arguments;
\* a raised exception is not cached
CacheLookup(c, key) == IF key \in DOMAIN c THEN c[key] ELSE NoClass

CacheHit(c, key) == key \in DOMAIN c

CachePut(c, key, value) == [k \in DOMAIN c \cup {key} |-> IF k = key THEN value ELSE c[k]]

GetItemResult(c, clsname, dim_str, format) ==
    IF CacheHit(c, <<clsname, dim_str>>) THEN CacheLookup(c, <<clsname, dim_str>>)
    ELSE GetItemBody(clsname, dim_str, format)

-----------------------------------------------------------------------------
(* Dicts and the values of a memo: an int (Named) or a tuple of ints (variadic) *)

EmptyDict == [k \in {} |-> 0]

DictSet(d, key, value) == [k \in DOMAIN d \cup {key} |-> IF k = key THEN value ELSE d[k]]

IntVal(n) == [kind |-> "int", shape |-> <<n>>]

TupleVal(s) == [kind |-> "tuple", shape |-> s]

-----------------------------------------------------------------------------
(* _check_dims, lines 75-98 *)

\* a faulty variant: a bound name is not compared, it is bound again
CheckOneDim_rebinds(cls_dim, obj_size, m) ==
    IF cls_dim = anonymous_dim THEN [ret |-> "True", memo |-> m]
    ELSE IF cls_dim.kind = "anonymous_variadic"
         THEN [ret |-> "AttributeError", memo |-> m]
    ELSE IF cls_dim.broadcastable /\ obj_size = 1 THEN [ret |-> "True", memo |-> m]
    ELSE IF cls_dim.kind = "fixed"
         THEN [ret |-> IF cls_dim.size # obj_size THEN "False" ELSE "True", memo |-> m]
    ELSE IF cls_dim.kind # "named" THEN [ret |-> "AssertionError", memo |-> m]
    ELSE [ret |-> "True", memo |-> DictSet(m, cls_dim.name, IntVal(obj_size))]

\* one (cls_dim, obj_size) pair of the loop, lines 82-97
CheckOneDim(cls_dim, obj_size, m) ==
    IF cls_dim = anonymous_dim THEN [ret |-> "True", memo |-> m]
    ELSE IF cls_dim.kind = "anonymous_variadic"
         THEN [ret |-> "AttributeError", memo |-> m]
    ELSE IF cls_dim.broadcastable /\ obj_size = 1 THEN [ret |-> "True", memo |-> m]
    ELSE IF cls_dim.kind = "fixed"
         THEN [ret |-> IF cls_dim.size # obj_size THEN "False" ELSE "True", memo |-> m]
    ELSE IF cls_dim.kind # "named" THEN [ret |-> "AssertionError", memo |-> m]
    ELSE IF cls_dim.name \notin DOMAIN m
         THEN [ret |-> "True", memo |-> DictSet(m, cls_dim.name, IntVal(obj_size))]
    ELSE [ret |-> IF m[cls_dim.name] # IntVal(obj_size) THEN "False" ELSE "True",
          memo |-> m]

RECURSIVE CheckDimsLoop(_, _, _, _)
CheckDimsLoop(cls_dims, obj_shape, p, m) ==
    IF p > Len(cls_dims) THEN [ret |-> "True", memo |-> m]
    ELSE LET r == CheckOneDim(cls_dims[p], obj_shape[p], m)
         IN  IF r.ret # "True" THEN r
             ELSE CheckDimsLoop(cls_dims, obj_shape, p + 1, r.memo)

check_dims(cls_dims, obj_shape, m) ==
    IF Len(cls_dims) # Len(obj_shape) THEN [ret |-> "AssertionError", memo |-> m]
    ELSE CheckDimsLoop(cls_dims, obj_shape, 1, m)

-----------------------------------------------------------------------------
(* _MetaAbstractArray._check_shape, lines 128-167.  The record returned      *)
(* holds the value returned or the exception raised (ret), the source line   *)
(* of that return or raise (at), and the dict `memo` as the call left it.    *)

Ret(ret, at, m) == [ret |-> ret, at |-> at, memo |-> m]

\* a faulty variant: the stored sizes are validated and kept, never widened
RECURSIVE Reconcile_keeps_old(_, _, _, _)
Reconcile_keeps_old(variadic_shape, obj_shape, p, new_variadic_shape) ==
    IF p > Len(variadic_shape) \/ p > Len(obj_shape)
    THEN [ok |-> TRUE, shape |-> new_variadic_shape]
    ELSE LET old_size == variadic_shape[p]
             new_size == obj_shape[p]
         IN  IF old_size # 1 /\ new_size # 1 /\ old_size # new_size
             THEN [ok |-> FALSE, shape |-> new_variadic_shape]
             ELSE Reconcile_keeps_old(variadic_shape, obj_shape, p + 1,
                                      Append(new_variadic_shape, old_size))

\* a faulty variant: a compatible new size always replaces the stored one
RECURSIVE Reconcile_takes_new(_, _, _, _)
Reconcile_takes_new(variadic_shape, obj_shape, p, new_variadic_shape) ==
    IF p > Len(variadic_shape) \/ p > Len(obj_shape)
    THEN [ok |-> TRUE, shape |-> new_variadic_shape]
    ELSE LET old_size == variadic_shape[p]
             new_size == obj_shape[p]
         IN  IF old_size # 1 /\ new_size # 1 /\ old_size # new_size
             THEN [ok |-> FALSE, shape |-> new_variadic_shape]
             ELSE Reconcile_takes_new(variadic_shape, obj_shape, p + 1,
                                      Append(new_variadic_shape, new_size))

\* lines 153-164: the elementwise reconciliation of a broadcastable variadic
RECURSIVE Reconcile(_, _, _, _)
Reconcile(variadic_shape, obj_shape, p, new_variadic_shape) ==
    IF p > Len(variadic_shape) \/ p > Len(obj_shape)
    THEN [ok |-> TRUE, shape |-> new_variadic_shape]
    ELSE LET old_size == variadic_shape[p]
             new_size == obj_shape[p]
         IN  IF old_size = 1
             THEN Reconcile(variadic_shape, obj_shape, p + 1,
                            Append(new_variadic_shape, new_size))
             ELSE IF new_size # 1 /\ old_size # new_size
                  THEN [ok |-> FALSE, shape |-> new_variadic_shape]
                  ELSE Reconcile(variadic_shape, obj_shape, p + 1,
                                 Append(new_variadic_shape, old_size))

\* lines 144-167: the variadic dim against obj.shape[i:j]
CheckVariadic(variadic_dim, sub_shape, m) ==
    IF variadic_dim = anonymous_variadic_dim THEN Ret("True", 167, m)
    ELSE LET variadic_name == variadic_dim.name
         IN  IF variadic_name \notin DOMAIN m
             THEN Ret("True", 167, DictSet(m, variadic_name, TupleVal(sub_shape)))
             ELSE LET variadic_shape == m[variadic_name]
                  IN  IF variadic_dim.broadcastable
                      THEN IF variadic_shape.kind = "int" THEN Ret("TypeError", 155, m)
                           ELSE IF Len(variadic_shape.shape) # Len(sub_shape)
                                THEN Ret("False", 156, m)
                           ELSE LET r == Reconcile(variadic_shape.shape, sub_shape, 1, <<>>)
                                IN  IF ~r.ok THEN Ret("False", 162, m)
                                    ELSE Ret("True", 167,
                                             DictSet(m, variadic_name, TupleVal(r.shape)))
                      ELSE Ret(IF variadic_shape = TupleVal(sub_shape)
                               THEN "True" ELSE "False", 166, m)

\* a faulty variant: j = 0 is not turned into None
VariadicEnd_keeps_zero(k, i) == Some(0 - (k - i - 1))

\* lines 137-139: j, the end of the variadic span, counted from the end
VariadicEnd(k, i) ==
    LET j == 0 - (k - i - 1)
    IN  IF j = 0 THEN None ELSE Some(j)

check_shape(c, o, m) ==
    LET ndim == Len(o.shape)
        k == Len(c.dims)
    IN  IF c.index_variadic = None
        THEN IF ndim # k THEN Ret("False", 131, m)
             ELSE LET r == check_dims(c.dims, o.shape, m)
                  IN  Ret(r.ret, 132, r.memo)
        ELSE IF ndim < k - 1 THEN Ret("False", 135, m)
        ELSE LET i == TheIdx(c.index_variadic)
                 j == VariadicEnd(k, i)
                 pre == check_dims(PySlice(c.dims, None, Some(i)),
                                   PySlice(o.shape, None, Some(i)), m)
             IN  IF pre.ret # "True"
                 THEN Ret(pre.ret, IF pre.ret = "False" THEN 141 ELSE 140, pre.memo)
                 ELSE LET suf == IF j = None THEN pre
                                 ELSE check_dims(PySlice(c.dims, j, None),
                                                 PySlice(o.shape, j, None), pre.memo)
                      IN  IF suf.ret # "True"
                          THEN Ret(suf.ret, IF suf.ret = "False" THEN 143 ELSE 142,
                                   suf.memo)
                          ELSE CheckVariadic(c.dims[i + 1],
                                             PySlice(o.shape, Some(i), j), suf.memo)

-----------------------------------------------------------------------------
(* _MetaAbstractArray.__instancecheck__, lines 102-126 *)

NotAnArray == [isArray |-> FALSE, shape |-> <<>>, dtype |-> "none"]

Array(shape, dtype) == [isArray |-> TRUE, shape |-> shape, dtype |-> dtype]

Top(stack) == stack[Len(stack)]

SetTop(stack, m) == [stack EXCEPT ![Len(stack)] = m]

\* a faulty variant: memo is the top dict itself, not a copy of it, so the
\* writes of a failed check stay
instancecheck_no_copy(stack, c, o) ==
    IF ~o.isArray
    THEN [ret |-> "False", at |-> 104, memo |-> EmptyDict, stack |-> stack]
    ELSE IF c.dtypes # any_dtype /\ o.dtype \notin c.dtypes
    THEN [ret |-> "False", at |-> 107, memo |-> EmptyDict, stack |-> stack]
    ELSE LET temp_memo == Len(stack) = 0
             m0 == IF temp_memo THEN EmptyDict ELSE Top(stack)
             r == check_shape(c, o, m0)
         IN  [ret |-> r.ret, at |-> IF r.ret = "True" THEN 124 ELSE r.at, memo |-> r.memo,
              stack |-> IF temp_memo THEN stack ELSE SetTop(stack, r.memo)]

\* a faulty variant: outside any scope the temporary memo is kept on the stack
instancecheck_keeps_temp(stack, c, o) ==
    IF ~o.isArray
    THEN [ret |-> "False", at |-> 104, memo |-> EmptyDict, stack |-> stack]
    ELSE IF c.dtypes # any_dtype /\ o.dtype \notin c.dtypes
    THEN [ret |-> "False", at |-> 107, memo |-> EmptyDict, stack |-> stack]
    ELSE LET m0 == IF Len(stack) = 0 THEN EmptyDict ELSE Top(stack)
             r == check_shape(c, o, m0)
         IN  IF r.ret = "True"
             THEN [ret |-> "True", at |-> 124, memo |-> r.memo,
                   stack |-> IF Len(stack) = 0 THEN <<r.memo>> ELSE SetTop(stack, r.memo)]
             ELSE [ret |-> r.ret, at |-> r.at, memo |-> r.memo, stack |-> stack]

\* the whole call on a given stack: value returned or exception raised, the
\* line of the return, the local memo at that point, and the stack afterwards
instancecheck(stack, c, o) ==
    IF ~o.isArray
    THEN [ret |-> "False", at |-> 104, memo |-> EmptyDict, stack |-> stack]
    ELSE IF c.dtypes # any_dtype /\ o.dtype \notin c.dtypes
    THEN [ret |-> "False", at |-> 107, memo |-> EmptyDict, stack |-> stack]
    ELSE LET temp_memo == Len(stack) = 0
             m0 == IF temp_memo THEN EmptyDict ELSE Top(stack)
             r == check_shape(c, o, m0)
         IN  IF r.ret = "True"
             THEN [ret |-> "True", at |-> 124, memo |-> r.memo,
                   stack |-> IF temp_memo THEN stack ELSE SetTop(stack, r.memo)]
             ELSE [ret |-> r.ret, at |-> r.at, memo |-> r.memo, stack |-> stack]

-----------------------------------------------------------------------------
(* Operations *)

NoResult == [ret |-> "None", at |-> 0]

\* isinstance(o, c): __instancecheck__ on the current storage.memo_stack
InstanceCheck(c, o) ==
    LET r == instancecheck(memo_stack, c, o)
    IN  /\ memo_stack' = r.stack
        /\ memo' = r.memo
        /\ result' = [ret |-> r.ret, at |-> r.at]
        /\ op' = "instancecheck"
        /\ UNCHANGED <<array_name_format, cache, cls, dim_str_arg, obj>>

\* entering a checked call: a fresh dict is appended to storage.memo_stack
Push ==
    /\ Len(memo_stack) < MaxDepth
    /\ memo_stack' = Append(memo_stack, EmptyDict)
    /\ op' = "push"
    /\ memo' = EmptyDict
    /\ result' = NoResult
    /\ UNCHANGED <<array_name_format, cache, cls, dim_str_arg, obj>>

\* leaving a checked call: the top dict is dropped
Pop ==
    /\ Len(memo_stack) > 0
    /\ memo_stack' = SubSeq(memo_stack, 1, Len(memo_stack) - 1)
    /\ op' = "pop"
    /\ memo' = EmptyDict
    /\ result' = NoResult
    /\ UNCHANGED <<array_name_format, cache, cls, dim_str_arg, obj>>

\* set_array_name_format(value), lines 36-38
SetArrayNameFormat(value) ==
    /\ array_name_format' = value
    /\ op' = "set_array_name_format"
    /\ UNCHANGED <<memo_stack, cache, cls, dim_str_arg, obj, memo, result>>

\* clsname[s]: __getitem__ behind its lru_cache, lines 184-232
GetItem(clsname, s) ==
    LET key == <<clsname, s>>
        r == GetItemResult(cache, clsname, s, array_name_format)
    IN  /\ cls' = r
        /\ dim_str_arg' = s
        /\ cache' = IF ~CacheHit(cache, key) /\ ~Raised(r) THEN CachePut(cache, key, r)
                    ELSE cache
        /\ result' = [ret |-> IF Raised(r) THEN r.exc ELSE "class", at |-> 0]
        /\ op' = "getitem"
        /\ UNCHANGED <<memo_stack, array_name_format, obj, memo>>

-----------------------------------------------------------------------------
(* The scope machine: checks made by one thread between scope entries and    *)
(* exits, on a few declarations and arrays.                                  *)

DefaultFormat == "dtype_and_shape"

\* "*batch#", "n *batch# n", "n *n#"
ScopeDimStrs ==
    { <<"*", "b", "a", "t", "c", "h", "#">>,
      <<"n", " ", "*", "b", "a", "t", "c", "h", "#", " ", "n">>,
      <<"n", " ", "*", "n", "#">> }

\* Array["*batch#"], Array["n *batch# n"], Array["n *n#"] and f32["_ 4"]
ScopeClasses ==
    { GetItemBody("Array", Str(s), DefaultFormat) : s \in ScopeDimStrs }
    \cup { GetItemBody("f32", Str(<<"_", " ", "4">>), DefaultFormat) }

ScopeShapes == { <<>>, <<1, 4>>, <<5, 4>>, <<1, 9>>, <<5, 1>>, <<2, 1, 9, 2>> }

ScopeObjects ==
    { Array(s, "float32") : s \in ScopeShapes }
    \cup { Array(<<1, 4>>, "int32"), NotAnArray }

Init ==
    /\ memo_stack = <<>>
    /\ array_name_format = DefaultFormat
    /\ cache = EmptyDict
    /\ op = "init"
    /\ cls = NoClass
    /\ dim_str_arg = NotAStr
    /\ obj = NotAnArray
    /\ memo = EmptyDict
    /\ result = NoResult

Check == \E c \in ScopeClasses, o \in ScopeObjects : InstanceCheck(c, o)

Next == Check \/ Push \/ Pop

Spec == Init /\ [][Next]_vars

-----------------------------------------------------------------------------
(* One check as a function of its inputs: a declaration, an array and the  *)
(* memo of the current scope are drawn, and isinstance runs once.          *)

Sizes == 0..MaxSize

RECURSIVE SeqsUpTo(_, _)
SeqsUpTo(S, n) ==
    IF n = 0 THEN { <<>> }
    ELSE LET shorter == SeqsUpTo(S, n - 1)
         IN  shorter \cup { Append(t, x) : t \in { u \in shorter : Len(u) = n - 1 }, x \in S }

\* the shapes of the worked examples: "n n" on (3, 3) and (3, 4),
\* "a *batch b" on (2, 5, 6, 7, 3)
ExampleShapes == { <<3, 3>>, <<3, 4>>, <<2, 5, 6, 7, 3>> }

Shapes == SeqsUpTo(Sizes, MaxRank) \cup ExampleShapes

\* "n n", "_ n#", "2# n", "n 2", "n# n 1", "0 _#",
\* "a *batch b", "*batch n", "n ...", "...# n 2#", "n *n", "n# *batch#"
ShapeDimStrs ==
    { <<"n", " ", "n">>,
      <<"_", " ", "n", "#">>,
      <<"2", "#", " ", "n">>,
      <<"n", " ", "2">>,
      <<"n", "#", " ", "n", " ", "1">>,
      <<"0", " ", "_", "#">>,
      <<"a", " ", "*", "b", "a", "t", "c", "h", " ", "b">>,
      <<"*", "b", "a", "t", "c", "h", " ", "n">>,
      <<"n", " ", ".", ".", ".">>,
      <<".", ".", ".", "#", " ", "n", " ", "2", "#">>,
      <<"n", " ", "*", "n">>,
      <<"n", "#", " ", "*", "b", "a", "t", "c", "h", "#">> }

ShapeClasses == { GetItemBody("Array", Str(s), DefaultFormat) : s \in ShapeDimStrs }

\* memos a scope can hold for the names n and batch: unbound, an axis size,
\* or a sub-shape
ShapeMemoValues(name) ==
    IF name = <<"n">>
    THEN { IntVal(1), IntVal(2), IntVal(3), TupleVal(<<2>>) }
    ELSE { TupleVal(<<>>), TupleVal(<<2>>), TupleVal(<<1, 2>>), IntVal(2) }

ShapeNames == { <<"n">>, <<"b", "a", "t", "c", "h">> }

ShapeMemos ==
    UNION { { f \in [D -> UNION { ShapeMemoValues(name) : name \in ShapeNames }] :
                \A name \in D : f[name] \in ShapeMemoValues(name) }
            : D \in SUBSET ShapeNames }

InitShape ==
    /\ memo_stack \in { <<m>> : m \in ShapeMemos }
    /\ array_name_format = DefaultFormat
    /\ cache = EmptyDict
    /\ op = "call"
    /\ cls \in ShapeClasses
    /\ dim_str_arg = NotAStr
    /\ obj \in { Array(s, "float32") : s \in Shapes }
    /\ memo = EmptyDict
    /\ result = NoResult

CheckCall == op = "call" /\ InstanceCheck(cls, obj)

NextShape == CheckCall

SpecShape == InitShape /\ [][NextShape]_vars

-----------------------------------------------------------------------------
(* The parser as a function of its input: a dimension string is drawn and  *)
(* subscripted once, on an empty cache, under the default name format.     *)

\* "3", "0", "-1", "1#", "1_0", "_", "...", "...#", "*b", "*b#", "n", "n#",
\* "a,b", "#"
TokenPool ==
    { <<"3">>, <<"0">>, <<"-", "1">>, <<"1", "#">>, <<"1", "_", "0">>,
      <<"_">>, <<".", ".", ".">>, <<".", ".", ".", "#">>,
      <<"*", "b">>, <<"*", "b", "#">>, <<"n">>, <<"n", "#">>,
      <<"a", ",", "b">>, <<"#">> }

\* " ".join(tokens)
RECURSIVE Join(_)
Join(tokens) ==
    IF Len(tokens) = 0 THEN <<>>
    ELSE IF Len(tokens) = 1 THEN tokens[1]
    ELSE tokens[1] \o <<" ">> \o Join(Tail(tokens))

\* "  n \t 3 ", "a ... b ... c"
OddDimStrs ==
    { <<" ", " ", "n", " ", "\t", " ", "3", " ">>,
      <<"a", " ", ".", ".", ".", " ", "b", " ", ".", ".", ".", " ", "c">> }

DimStrs ==
    { Str(Join(tokens)) : tokens \in SeqsUpTo(TokenPool, MaxTokens) }
    \cup { Str(s) : s \in OddDimStrs }
    \cup { NotAStr }

InitParse ==
    /\ memo_stack = <<>>
    /\ array_name_format = DefaultFormat
    /\ cache = EmptyDict
    /\ op = "call"
    /\ cls = NoClass
    /\ dim_str_arg \in DimStrs
    /\ obj = NotAnArray
    /\ memo = EmptyDict
    /\ result = NoResult

GetItemCall == op = "call" /\ GetItem("Array", dim_str_arg)

NextParse == GetItemCall

SpecParse == InitParse /\ [][NextParse]_vars

-----------------------------------------------------------------------------
(* The name format and the declaration cache: the format is set and        *)
(* declarations are built in any order.                                    *)

Formats == { "dtype_and_shape", "array", "bogus" }

\* "n", "n 4", "... n", "a,b" and a subscript that is no string
CacheDimStrs ==
    { Str(<<"n">>), Str(<<"n", " ", "4">>), Str(<<".", ".", ".", " ", "n">>),
      Str(<<"a", ",", "b">>), NotAStr }

SetFormat == \E value \in Formats : SetArrayNameFormat(value)

Subscript == \E clsname \in DtypeClasses, s \in CacheDimStrs : GetItem(clsname, s)

NextCache == SetFormat \/ Subscript

SpecCache == Init /\ [][NextCache]_vars

-----------------------------------------------------------------------------
(* Helpers of the properties *)

n_name == <<"n">>
batch_name == <<"b", "a", "t", "c", "h">>

IsCheckStep == op' = "instancecheck"

\* the variadic dim of a class that has one
VariadicDimOf(c) == c.dims[TheIdx(c.index_variadic) + 1]

\* the axes between the first i and the last k - i - 1 of a shape
MiddleOf(c, shape) ==
    LET i == TheIdx(c.index_variadic)
        k == Len(c.dims)
    IN  SubSeq(shape, i + 1, Len(shape) - (k - i - 1))

\* the elementwise broadcast of a stored sub-shape with a new one
Broadcast(old, new) == [p \in 1..Len(old) |-> IF old[p] = 1 THEN new[p] ELSE old[p]]

Compatible(old, new) ==
    /\ Len(old) = Len(new)
    /\ \A p \in 1..Len(old) : old[p] = 1 \/ new[p] = 1 \/ old[p] = new[p]

-----------------------------------------------------------------------------
(* C1: inside a scope (non-empty memo stack), a check that returns false   *)
(* leaves the whole memo stack as it was: same depth, same entries, the    *)
(* top included, wherever the failure occurred.                            *)
C1_FailedCheckLeavesStack ==
    [][(IsCheckStep /\ Len(memo_stack) > 0 /\ result'.ret = "False")
        => memo_stack' = memo_stack]_vars

\* a variadic mismatch (line 162) after the prefix and suffix bound n in the
\* private copy, which the stack does not show
C1_Witness ==
    /\ op = "instancecheck"
    /\ Len(memo_stack) > 0
    /\ result = [ret |-> "False", at |-> 162]
    /\ n_name \in DOMAIN memo
    /\ n_name \notin DOMAIN Top(memo_stack)

-----------------------------------------------------------------------------
(* C2: a check ends with true or false; no exception and no failed         *)
(* assertion is reachable, also when one scope uses a name both as a       *)
(* single axis and as a variadic.                                          *)
C2_CheckNeverRaises ==
    op = "instancecheck" => result.ret \in {"True", "False"}

-----------------------------------------------------------------------------
(* C5: checking a broadcastable named variadic whose name is bound to a    *)
(* sub-shape fails when the lengths differ or some pair of sizes differs   *)
(* with neither being 1; otherwise the variadic part does not fail, and on *)
(* success the binding becomes the elementwise broadcast (a stored 1 takes *)
(* the new size, any other stored size is kept).                           *)
C5_Classes ==
    { c \in ScopeClasses : /\ c.index_variadic # None
                           /\ VariadicDimOf(c).kind = "named_variadic"
                           /\ VariadicDimOf(c).broadcastable }

C5_Pre(c, o) ==
    /\ Len(memo_stack) > 0
    /\ VariadicDimOf(c).name \in DOMAIN Top(memo_stack)
    /\ Top(memo_stack)[VariadicDimOf(c).name].kind = "tuple"
    /\ o.isArray
    /\ Len(o.shape) >= Len(c.dims) - 1

C5_Post(c, o) ==
    LET name == VariadicDimOf(c).name
        old == Top(memo_stack)[name].shape
        new == MiddleOf(c, o.shape)
    IN  /\ ~Compatible(old, new) => result'.ret = "False"
        /\ Compatible(old, new) => result'.at \notin {155, 156, 162}
        /\ result'.ret = "True" =>
              Top(memo_stack')[name] = TupleVal(Broadcast(old, new))

\* C5: the rule above, on every check step made in a scope where the name
\* of the broadcastable variadic is bound to a sub-shape
C5_BroadcastAccumulates ==
    [][IsCheckStep =>
         \A c \in C5_Classes, o \in ScopeObjects :
             (C5_Pre(c, o) /\ InstanceCheck(c, o)) => C5_Post(c, o)]_vars

\* (5, 9) is no array's shape: it is (1, 9) widened by (5, 1), or the reverse
C5_Witness ==
    /\ op = "instancecheck"
    /\ result.ret = "True"
    /\ Len(memo_stack) > 0
    /\ batch_name \in DOMAIN Top(memo_stack)
    /\ Top(memo_stack)[batch_name] = TupleVal(<<5, 9>>)

-----------------------------------------------------------------------------
(* C8: with an empty memo stack a check leaves the stack empty, whatever   *)
(* it returns, and its outcome is that of the check on a fresh empty memo. *)
OnFreshMemo(c, o) ==
    IF ~o.isArray THEN [ret |-> "False", at |-> 104]
    ELSE IF c.dtypes # any_dtype /\ o.dtype \notin c.dtypes
    THEN [ret |-> "False", at |-> 107]
    ELSE LET r == check_shape(c, o, EmptyDict)
         IN  [ret |-> r.ret, at |-> IF r.ret = "True" THEN 124 ELSE r.at]

\* C8: every check step from an empty stack leaves it empty and returns
\* what the check on a fresh empty memo returns
C8_NoScopeNoBinding ==
    [][(IsCheckStep /\ Len(memo_stack) = 0) =>
         /\ memo_stack' = <<>>
         /\ \A c \in ScopeClasses, o \in ScopeObjects :
               InstanceCheck(c, o) => result' = OnFreshMemo(c, o)]_vars

\* a successful check outside any scope bound names in its throwaway memo
C8_Witness ==
    /\ op = "instancecheck"
    /\ memo_stack = <<>>
    /\ result.ret = "True"
    /\ batch_name \in DOMAIN memo

-----------------------------------------------------------------------------
(* C10: a check keeps the depth of the stack and every entry below the     *)
(* top; in the top entry no binding is removed, an integer binding keeps   *)
(* its value, a sub-shape binding keeps its length, and an element of it   *)
(* changes only from 1, and only in a successful check of a broadcastable  *)
(* named variadic of that name.                                            *)
BroadcastableVariadicOf(name) ==
    { c \in ScopeClasses : /\ c.index_variadic # None
                           /\ VariadicDimOf(c) = NamedVariadicDim(name, TRUE) }

C10_Stable ==
    /\ Len(memo_stack') = Len(memo_stack)
    /\ \A d \in 1..(Len(memo_stack) - 1) : memo_stack'[d] = memo_stack[d]
    /\ Len(memo_stack) > 0 =>
         LET old == Top(memo_stack)
             new == Top(memo_stack')
         IN  /\ DOMAIN old \subseteq DOMAIN new
             /\ \A name \in DOMAIN old :
                  /\ old[name].kind = "int" => new[name] = old[name]
                  /\ old[name].kind = "tuple" =>
                       /\ new[name].kind = "tuple"
                       /\ Len(new[name].shape) = Len(old[name].shape)
                       /\ \A p \in 1..Len(old[name].shape) :
                            new[name].shape[p] # old[name].shape[p]
                            => old[name].shape[p] = 1
                       /\ new[name] # old[name] =>
                            /\ result'.ret = "True"
                            /\ \E c \in BroadcastableVariadicOf(name),
                                  o \in ScopeObjects : InstanceCheck(c, o)

\* C10: every check step keeps the bindings of the scope stable, as above
C10_BindingsStable == [][IsCheckStep => C10_Stable]_vars

\* in an inner scope, above a non-empty entry: n is bound to 2 and batch,
\* once (1, 9), has been widened to (5, 9)
C10_Witness ==
    /\ op = "instancecheck"
    /\ Len(memo_stack) = 2
    /\ memo_stack[1] # EmptyDict
    /\ DOMAIN Top(memo_stack) = {n_name, batch_name}
    /\ Top(memo_stack)[n_name] = IntVal(2)
    /\ Top(memo_stack)[batch_name] = TupleVal(<<5, 9>>)

-----------------------------------------------------------------------------
(* C3: without a variadic token and at equal rank, the check is true iff   *)
(* every (token, size) pair succeeds in order: Anonymous always; Fixed iff *)
(* size = n or (broadcastable and size = 1); Named without writing when    *)
(* broadcastable and size = 1, else it binds an unbound name to the size,  *)
(* else iff the bound value equals the size.  On success the memo is the   *)
(* old one plus the first sizes seen for the names it bound.               *)

\* the pair at p reads or writes the memo
C3_Binds(c, shape, p) ==
    /\ c.dims[p].kind = "named"
    /\ ~(c.dims[p].broadcastable /\ shape[p] = 1)

\* the first position that binds this name in this check
C3_First(c, shape, name) ==
    CHOOSE q \in 1..Len(c.dims) :
        /\ C3_Binds(c, shape, q) /\ c.dims[q].name = name
        /\ \A r \in 1..(q - 1) : ~(C3_Binds(c, shape, r) /\ c.dims[r].name = name)

C3_PairOk(c, shape, m, p) ==
    LET d == c.dims[p]
    IN  IF d.kind = "anonymous" THEN TRUE
        ELSE IF d.broadcastable /\ shape[p] = 1 THEN TRUE
        ELSE IF d.kind = "fixed" THEN shape[p] = d.size
        ELSE IF d.name \in DOMAIN m THEN m[d.name] = IntVal(shape[p])
        ELSE shape[C3_First(c, shape, d.name)] = shape[p]

C3_Bound(c, shape) ==
    { c.dims[p].name : p \in { q \in 1..Len(c.dims) : C3_Binds(c, shape, q) } }

C3_MemoAfter(c, shape, m) ==
    [name \in DOMAIN m \cup C3_Bound(c, shape) |->
        IF name \in DOMAIN m THEN m[name]
        ELSE IntVal(shape[C3_First(c, shape, name)])]

C3_Post(c, shape, m) ==
    LET all_ok == \A p \in 1..Len(c.dims) : C3_PairOk(c, shape, m, p)
    IN  /\ result'.ret = IF all_ok THEN "True" ELSE "False"
        /\ all_ok => Top(memo_stack') = C3_MemoAfter(c, shape, m)

\* C3: every check of a declaration without a variadic at equal rank
\* follows the pairwise rules above
C3_PairwiseRules ==
    [][(op = "call" /\ cls.index_variadic = None /\ Len(obj.shape) = Len(cls.dims))
        => C3_Post(cls, obj.shape, Top(memo_stack))]_vars

\* "n n" matched (3, 3) in a scope where n was unbound, and bound n to 3
C3_Witness ==
    /\ op = "instancecheck"
    /\ cls.dims = <<NamedDim(<<"n">>, FALSE), NamedDim(<<"n">>, FALSE)>>
    /\ obj.shape = <<3, 3>>
    /\ result.ret = "True"
    /\ Top(memo_stack)[<<"n">>] = IntVal(3)
    /\ memo = Top(memo_stack)

-----------------------------------------------------------------------------
(* C4: with the variadic token at index i of k tokens, a check fails when  *)
(* rank < k - 1; otherwise the i tokens before it are checked against the  *)
(* first i axes and the k - i - 1 tokens after it against the last         *)
(* k - i - 1 axes, with no length mismatch, and the variadic token gets    *)
(* the axes in between, in order: an unbound named variadic is bound to    *)
(* them, a bound non-broadcastable one must equal them.                    *)
C4_Post(c, shape, m) ==
    LET k == Len(c.dims)
        i == TheIdx(c.index_variadic)
        ndim == Len(shape)
        v == VariadicDimOf(c)
        fixed_dims == SubSeq(c.dims, 1, i) \o SubSeq(c.dims, i + 2, k)
        fixed_shape == SubSeq(shape, 1, i) \o SubSeq(shape, ndim - (k - i - 1) + 1, ndim)
        middle == MiddleOf(c, shape)
        f == check_dims(fixed_dims, fixed_shape, m)
    IN  IF ndim < k - 1
        THEN result'.ret = "False" /\ memo_stack' = memo_stack
        ELSE /\ result'.ret # "AssertionError"
             /\ Len(fixed_shape) = k - 1
             /\ Len(middle) = ndim - (k - 1)
             /\ f.ret = "False" => result'.ret = "False"
             /\ (f.ret = "True" /\ v.kind = "anonymous_variadic") =>
                   (result'.ret = "True" /\ Top(memo_stack') = f.memo)
             /\ (f.ret = "True" /\ v.kind = "named_variadic" /\ v.name \notin DOMAIN f.memo) =>
                   /\ result'.ret = "True"
                   /\ Top(memo_stack') = DictSet(f.memo, v.name, TupleVal(middle))
             /\ (f.ret = "True" /\ v.kind = "named_variadic" /\ v.name \in DOMAIN f.memo
                   /\ ~v.broadcastable) =>
                   result'.ret = IF f.memo[v.name] = TupleVal(middle) THEN "True" ELSE "False"

\* C4: every check of a declaration with a variadic splits the shape into
\* prefix, middle and suffix as above
C4_VariadicSpan ==
    [][(op = "call" /\ cls.index_variadic # None)
        => C4_Post(cls, obj.shape, Top(memo_stack))]_vars

\* "a *batch b" matched (2, 5, 6, 7, 3) and bound batch to (5, 6, 7)
C4_Witness ==
    /\ op = "instancecheck"
    /\ cls.dims = <<NamedDim(<<"a">>, FALSE), NamedVariadicDim(batch_name, FALSE),
                    NamedDim(<<"b">>, FALSE)>>
    /\ obj.shape = <<2, 5, 6, 7, 3>>
    /\ result.ret = "True"
    /\ Top(memo_stack)[<<"a">>] = IntVal(2)
    /\ Top(memo_stack)[batch_name] = TupleVal(<<5, 6, 7>>)
    /\ Top(memo_stack)[<<"b">>] = IntVal(3)

\* the same declaration matched (2, 3) with no axis left for batch
C4_WitnessEmpty ==
    /\ op = "instancecheck"
    /\ cls.dims = <<NamedDim(<<"a">>, FALSE), NamedVariadicDim(batch_name, FALSE),
                    NamedDim(<<"b">>, FALSE)>>
    /\ obj.shape = <<2, 3>>
    /\ result.ret = "True"
    /\ Top(memo_stack)[batch_name] = TupleVal(<<>>)

-----------------------------------------------------------------------------
(* Helpers of the parser's properties: the tokens of a string as text *)

StripHash(token) ==
    IF Len(token) > 0 /\ token[Len(token)] = "#"
    THEN SubSeq(token, 1, Len(token) - 1) ELSE token

\* `...` or `*name`, with or without a trailing `#`
IsVariadicToken(token) ==
    LET t == StripHash(token)
    IN  t = <<".", ".", ".">> \/ (Len(t) > 0 /\ t[1] = "*")

VariadicPositions(tokens) == { p \in 1..Len(tokens) : IsVariadicToken(tokens[p]) }

IsError(r) == r.ret \notin {"class", "None"}

-----------------------------------------------------------------------------
(* C6: while the name format holds an unrecognised value, building a       *)
(* declaration from any string fails with an error and returns no class,   *)
(* whether or not the string was parsed before under a recognised format.  *)
C6_UnrecognisedFormatFails ==
    (op = "getitem" /\ ~FormatRecognised(array_name_format))
        => (~cls.isClass /\ IsError(result))

-----------------------------------------------------------------------------
(* C7: a returned declaration has one dim per token and at most one        *)
(* variadic dim, its variadic index is the position of the variadic token  *)
(* (none without one), and a string with two or more variadic tokens is    *)
(* rejected with an error and gives no declaration.                        *)
C7_AtMostOneVariadic ==
    (op = "getitem" /\ dim_str_arg.isStr) =>
        LET tokens == Split(dim_str_arg.chars)
        IN  /\ cls.isClass =>
                 /\ Len(cls.dims) = Len(tokens)
                 /\ \A p \in 1..Len(tokens) :
                      IsVariadic(cls.dims[p]) <=> IsVariadicToken(tokens[p])
                 /\ Cardinality({ p \in 1..Len(cls.dims) : IsVariadic(cls.dims[p]) }) <= 1
                 /\ cls.index_variadic = { p - 1 : p \in VariadicPositions(tokens) }
            /\ Cardinality(VariadicPositions(tokens)) >= 2 =>
                 (~cls.isClass /\ IsError(result))

\* "3 *b# n": a class with its variadic dim at index 1 of three
C7_Witness ==
    /\ op = "getitem"
    /\ cls.isClass
    /\ Len(cls.dims) = 3
    /\ cls.index_variadic = Some(1)
    /\ cls.dims[2] = NamedVariadicDim(<<"b">>, TRUE)

\* "... *b": two variadic tokens, rejected
C7_WitnessRejected ==
    /\ op = "getitem"
    /\ dim_str_arg = Str(<<".", ".", ".", " ", "*", "b">>)
    /\ ~cls.isClass
    /\ result.ret = VariadicError

-----------------------------------------------------------------------------
(* C9: each token is classified in priority order: a trailing `#` sets     *)
(* broadcastable and is stripped; then Fixed iff the token parses as a     *)
(* non-negative integer, else Anonymous iff `_`, else AnonymousVariadic    *)
(* iff `...`, else NamedVariadic iff it starts with `*`, else Named; so    *)
(* every Fixed dim of a returned declaration has size >= 0.                *)
C9_Claimed(token) ==
    LET broadcastable == Len(token) > 0 /\ token[Len(token)] = "#"
        t == StripHash(token)
    IN  IF PyIntOk(t) /\ PyInt(t) >= 0 THEN FixedDim(PyInt(t), broadcastable)
        ELSE IF t = <<"_">> THEN anonymous_dim
        ELSE IF t = <<".", ".", ".">> THEN anonymous_variadic_dim
        ELSE IF Len(t) > 0 /\ t[1] = "*" THEN NamedVariadicDim(Tail(t), broadcastable)
        ELSE NamedDim(t, broadcastable)

\* C9: every dim of a returned declaration is the one the priority order
\* above gives for its token, and a Fixed dim has size >= 0
C9_Classification ==
    (op = "getitem" /\ cls.isClass) =>
        LET tokens == Split(dim_str_arg.chars)
        IN  /\ Len(cls.dims) = Len(tokens)
            /\ \A p \in 1..Len(tokens) :
                 /\ cls.dims[p] = C9_Claimed(tokens[p])
                 /\ cls.dims[p].kind = "fixed" => cls.dims[p].size >= 0

=============================================================================
